---- MODULE Spec2Model ----
(***************************************************************************)
(* Model of the Pyrat Bay line-database search and opacity-grid builder:   *)
(*   pyratbay/pyrat/extinction.py          compute_opacity, extinction     *)
(*   pyratbay/lineread/database/driver.py  dbdriver.binsearch              *)
(* Temperatures, keys and spectra are small integers; a spectrum (one      *)
(* etable[:, itemp, ilayer] region, one extinct_coeff buffer) is a single  *)
(* number.                                                                 *)
(***************************************************************************)
EXTENDS Integers, Sequences, FiniteSets, TLC

\* ------------------------------------------------------------------ bounds
MaxT == 4
MaxCpu == 4
MaxLayers == 2
MaxLen == 5
MaxKey == 3

\* ------------------------------------------------------------- Python values
\* An optional value: None is the empty tuple, a set value v is <<v>>.
None == << >>
Some(v) == <<v>>

\* Python's int(a/b) for integers a and b > 0: truncation toward zero.
TruncDiv(a, b) ==
  IF a >= 0 THEN a \div b ELSE -((-a) \div b)

\* The elements of a finite set of integers in ascending order.
RECURSIVE SortedSeq(_)
SortedSeq(S) ==
  IF S = {} THEN << >>
  ELSE LET m == CHOOSE x \in S : \A y \in S : x <= y
       IN <<m>> \o SortedSeq(S \ {m})

Range(s) == {s[k] : k \in DOMAIN s}

VARIABLES
  inputs,        \* the configuration object: ex.extfile, ex.tmin, ex.tmax,
                 \* ex.tstep, inputs.tlifile, lbl.tmin, lbl.tmax, ncpu,
                 \* atm.nlayers, log.verb
  pc,            \* position of compute_opacity
  err,           \* the fatal error that ended compute_opacity, or "none"
  ntemp,         \* ex.ntemp
  temp,          \* ex.temp
  allocated,     \* the shared table sm_ect / ex.etable exists
  etable,        \* ex.etable: region <<itemp, ilayer>> -> spectrum
  nstarted,      \* loop index of the start loop: processes started so far
  njoined,       \* loop position of the join loop: processes joined so far
  wstate,        \* per process: "none", "started", "running", "done", "failed"
  windices,      \* per process: the indices argument it was started with
  wpos,          \* per process: position in its loop over indices
  extinct_coeff, \* per process: its local extinct_coeff buffer
  wverb,         \* per process: its copy of pyrat.log.verb
  writes,        \* history: region -> the processes that stored into it, in order
  outfile,       \* history: the tables passed to io.write_opacity, in order
  wmsgs,         \* history: per process, the progress messages it has printed
  mainverb,      \* pyrat.log.verb in the process that runs compute_opacity
  bs,            \* state of a dbdriver.binsearch call
  rd,            \* a database driver object and its dbread/getpf calls
  ge             \* state of a get_ec call

vars == <<inputs, pc, err, ntemp, temp, allocated, etable, nstarted, njoined,
          wstate, windices, wpos, extinct_coeff, wverb, writes, outfile,
          wmsgs, mainverb, bs, rd, ge>>

buildvars == <<inputs, pc, err, ntemp, temp, allocated, etable, nstarted,
               njoined, wstate, windices, wpos, extinct_coeff, wverb, writes,
               outfile, wmsgs, mainverb>>

\* ------------------------------------------------------- compute_opacity
Workers == 0 .. (MaxCpu - 1)

TempOpt == {None} \cup {Some(t) : t \in 0 .. MaxT}

Inputs ==
  [extfile : {None, Some(<< >>), Some(<<"a.npz">>), Some(<<"a.npz", "b.npz">>)},
   tmin : TempOpt,
   tmax : TempOpt,
   tstep : {None, Some(1), Some(2)},
   tlifile : {None, Some(<<"db.tli">>)},
   lbl_tmin : {1},
   lbl_tmax : {MaxT - 1},
   ncpu : 1 .. MaxCpu,
   nlayers : 1 .. MaxLayers,
   verb : {2}]

\* ParamCheck without the tlifile check.
ParamCheckNoTli(p) ==
  IF p.extfile = None THEN "extfile undefined"
  ELSE IF Len(p.extfile[1]) > 1 THEN "more than one extfile"
  ELSE IF p.tmin = None THEN "tmin undefined"
  ELSE IF p.tmax = None THEN "tmax undefined"
  ELSE IF p.tstep = None THEN "tstep undefined"
  ELSE IF Len(p.extfile[1]) = 0 THEN "IndexError"
  ELSE "ok"

\* The first failure of the parameter checks, in source order, or "ok".
ParamCheck(p) ==
  IF p.extfile = None THEN "extfile undefined"
  ELSE IF Len(p.extfile[1]) > 1 THEN "more than one extfile"
  ELSE IF p.tmin = None THEN "tmin undefined"
  ELSE IF p.tmax = None THEN "tmax undefined"
  ELSE IF p.tstep = None THEN "tstep undefined"
  ELSE IF p.tlifile = None THEN "tlifile undefined"
  ELSE IF Len(p.extfile[1]) = 0 THEN "IndexError"
  ELSE "ok"

\* TempCheck without the upper boundary check.
TempCheckNoMax(p) ==
  IF p.tmin[1] < p.lbl_tmin THEN "tmin below TLI range"
  ELSE "ok"

\* The first failure of the temperature boundaries check, or "ok".
TempCheck(p) ==
  IF p.tmin[1] < p.lbl_tmin THEN "tmin below TLI range"
  ELSE IF p.tmax[1] > p.lbl_tmax THEN "tmax above TLI range"
  ELSE "ok"

NoBuildState ==
  /\ ntemp = 0
  /\ temp = << >>
  /\ allocated = FALSE
  /\ etable = << >>
  /\ nstarted = 0
  /\ njoined = 0
  /\ wstate = [w \in Workers |-> "none"]
  /\ windices = [w \in Workers |-> << >>]
  /\ wpos = [w \in Workers |-> 0]
  /\ extinct_coeff = [w \in Workers |-> 0]
  /\ wverb = [w \in Workers |-> 0]
  /\ writes = << >>
  /\ outfile = << >>
  /\ wmsgs = [w \in Workers |-> 0]
  /\ mainverb = inputs.verb

NoSearch == [pc |-> "idle"]

NoDriver == [pc |-> "idle"]

NoGetEc == [pc |-> "idle"]

Init ==
  /\ inputs \in Inputs
  /\ pc = "configured"
  /\ err = "none"
  /\ NoBuildState
  /\ bs = NoSearch
  /\ rd = NoDriver
  /\ ge = NoGetEc

Fatal(e) ==
  /\ pc' = "failed"
  /\ err' = e

\* Lines 23-55: the required parameters.
CheckParams ==
  /\ pc = "configured"
  /\ IF ParamCheck(inputs) = "ok"
       THEN pc' = "params_ok" /\ err' = err
       ELSE Fatal(ParamCheck(inputs))
  /\ UNCHANGED <<inputs, ntemp, temp, allocated, etable, nstarted, njoined,
                 wstate, windices, wpos, extinct_coeff, wverb, writes,
                 outfile, bs, rd, ge, wmsgs, mainverb>>

\* Lines 56-68: the temperature boundaries.
CheckTemp ==
  /\ pc = "params_ok"
  /\ IF TempCheck(inputs) = "ok"
       THEN pc' = "validated" /\ err' = err
       ELSE Fatal(TempCheck(inputs))
  /\ UNCHANGED <<inputs, ntemp, temp, allocated, etable, nstarted, njoined,
                 wstate, windices, wpos, extinct_coeff, wverb, writes,
                 outfile, bs, rd, ge, wmsgs, mainverb>>

\* Line 71: ex.ntemp = int((ex.tmax-ex.tmin)/ex.tstep) + 1
Ntemp(p) == TruncDiv(p.tmax[1] - p.tmin[1], p.tstep[1]) + 1

\* Line 72: np.linspace(tmin, tmin + (ntemp-1)*tstep, ntemp), indexed from 0.
Linspace(p, n) == [k \in 0 .. (n - 1) |-> p.tmin[1] + k * p.tstep[1]]

\* Line 85: pyrat.lbl.iso_pf_interp[i](ex.temp), the partition-function
\* interpolator, fails for a temperature outside the tabulated range.
InterpolateFails(p, T) ==
  \E k \in DOMAIN T : T[k] < p.lbl_tmin \/ T[k] > p.lbl_tmax

\* Lines 70-85: the temperature array (np.linspace rejects a negative count)
\* and the partition function interpolated at its temperatures.
MakeTemp ==
  /\ pc = "validated"
  /\ IF Ntemp(inputs) < 0
       THEN Fatal("ValueError") /\ UNCHANGED <<ntemp, temp>>
       ELSE IF InterpolateFails(inputs, Linspace(inputs, Ntemp(inputs)))
       THEN /\ Fatal("OutOfRangeError")
            /\ ntemp' = Ntemp(inputs)
            /\ temp' = Linspace(inputs, Ntemp(inputs))
       ELSE /\ ntemp' = Ntemp(inputs)
            /\ temp' = Linspace(inputs, Ntemp(inputs))
            /\ pc' = "sampled"
            /\ err' = err
  /\ UNCHANGED <<inputs, allocated, etable, nstarted, njoined,
                 wstate, windices, wpos, extinct_coeff, wverb, writes,
                 outfile, bs, rd, ge, wmsgs, mainverb>>

Regions == (0 .. (ntemp - 1)) \X (0 .. (inputs.nlayers - 1))

ncells == ntemp * inputs.nlayers

\* Lines 87-98: the zero-filled shared table.
Allocate ==
  /\ pc = "sampled"
  /\ allocated' = TRUE
  /\ etable' = [r \in Regions |-> 0]
  /\ writes' = [r \in Regions |-> << >>]
  /\ pc' = "start"
  /\ UNCHANGED <<inputs, err, ntemp, temp, nstarted, njoined,
                 wstate, windices, wpos, extinct_coeff, wverb, outfile,
                 bs, rd, ge, wmsgs, mainverb>>

\* CpuIndex with the quotient taken for the remainder.
CpuIndexDiv(c, n) == c \div n

\* Line 102: the CPU index of grid cell c among n processes.
CpuIndex(c, n) == c % n

\* Line 106: np.where(indices==i)[0], the cells of process i in ascending order.
WorkerIndices(i) ==
  SortedSeq({c \in 0 .. (ncells - 1) : CpuIndex(c, inputs.ncpu) = i})

\* Lines 105-109: one iteration of the start loop.
StartProcess ==
  /\ pc = "start"
  /\ nstarted < inputs.ncpu
  /\ windices' = [windices EXCEPT ![nstarted] = WorkerIndices(nstarted)]
  /\ wstate' = [wstate EXCEPT ![nstarted] = "started"]
  /\ wverb' = [wverb EXCEPT ![nstarted] = inputs.verb]
  /\ nstarted' = nstarted + 1
  /\ pc' = IF nstarted + 1 = inputs.ncpu THEN "join" ELSE "start"
  /\ UNCHANGED <<inputs, err, ntemp, temp, allocated, etable, njoined,
                 wpos, extinct_coeff, writes, outfile, bs, rd, ge, wmsgs,
                 mainverb>>

\* Terminated for a join that does not wait.
TerminatedNoWait(w) == TRUE

\* Line 111: proc.join() returns once the process has terminated, whatever
\* its exit code.
Terminated(w) == wstate[w] \in {"done", "failed"}

\* Lines 110-111: one iteration of the join loop.
JoinProcess ==
  /\ pc = "join"
  /\ njoined < inputs.ncpu
  /\ Terminated(njoined)
  /\ njoined' = njoined + 1
  /\ pc' = IF njoined + 1 = inputs.ncpu THEN "write" ELSE "join"
  /\ UNCHANGED <<inputs, err, ntemp, temp, allocated, etable, nstarted,
                 wstate, windices, wpos, extinct_coeff, wverb, writes,
                 outfile, bs, rd, ge, wmsgs, mainverb>>

\* Lines 113-118: io.write_opacity of the table as it is.
WriteOpacity ==
  /\ pc = "write"
  /\ outfile' = Append(outfile, etable)
  /\ pc' = "persisted"
  /\ UNCHANGED <<inputs, err, ntemp, temp, allocated, etable, nstarted,
                 njoined, wstate, windices, wpos, extinct_coeff, wverb,
                 writes, bs, rd, ge, wmsgs, mainverb>>

\* ------------------------------------------------------------ extinction
\* WorkerVerb that leaves the verbosity as configured.
WorkerVerbKeep(indices, verb) == verb

\* Line 157: pyrat.log.verb = (0 in indices) * verb
WorkerVerb(indices, verb) == IF 0 \in Range(indices) THEN verb ELSE 0

\* ForkedVerb for workers that share the parent's memory.
SharedVerb(parentverb, childverb) == childverb

\* Line 107: the processes are forked, so an assignment to pyrat.log.verb in
\* a child (line 157) lands in the child's copy: the value the parent holds
\* afterwards.
ForkedVerb(parentverb, childverb) == parentverb

\* Lines 138-157: the setup of extinction() in a forked process: the local
\* buffer (grid mode, add=False) and the process's own copy of log.verb.
ExtinctionBegin(w) ==
  /\ wstate[w] = "started"
  /\ extinct_coeff' = [extinct_coeff EXCEPT ![w] = 0]
  /\ wverb' = [wverb EXCEPT ![w] = WorkerVerb(windices[w], wverb[w])]
  /\ mainverb' = ForkedVerb(mainverb, WorkerVerb(windices[w], wverb[w]))
  /\ wpos' = [wpos EXCEPT ![w] = 1]
  /\ wstate' = [wstate EXCEPT ![w] = "running"]
  /\ UNCHANGED <<inputs, pc, err, ntemp, temp, allocated, etable, nstarted,
                 njoined, windices, writes, outfile, bs, rd, ge, wmsgs>>

\* Ilayer with the other axis length.
IlayerSwapped(index) == index % ntemp

\* Line 160: ilayer = index % atm.nlayers
Ilayer(index) == index % inputs.nlayers

\* Line 165: itemp = int(index / atm.nlayers)
Itemp(index) == TruncDiv(index, inputs.nlayers)

\* ClearCoeff that keeps the previous cell's spectrum.
ClearCoeffKeep(b) == b

\* Line 184: extinct_coeff[:] = 0.0
ClearCoeff(b) == 0

\* Lines 189-201: ec.extinction accumulates the spectrum of the cell at
\* temperature T and layer ilayer into the buffer it is handed.
CellSpectrum(T, ilayer) == 10 * T + ilayer + 1

EcExtinction(b, T, ilayer) == b + CellSpectrum(T, ilayer)

\* Lines 160-201: the spectrum of grid cell index, given the buffer as the
\* previous iteration left it.
ComputeCell(b, index) ==
  EcExtinction(ClearCoeff(b), temp[Itemp(index)], Ilayer(index))

\* Lines 168-173: pyrat.log.msg prints its message unless the log's verbosity
\* is 0; the number of messages printed.
LogMsg(verb) == IF verb > 0 THEN 1 ELSE 0

\* Lines 159-204: one iteration of the loop over indices, grid=True.
ExtinctionCell(w) ==
  /\ wstate[w] = "running"
  /\ wpos[w] <= Len(windices[w])
  /\ LET index == windices[w][wpos[w]]
         region == <<Itemp(index), Ilayer(index)>>
         ec == ComputeCell(extinct_coeff[w], index)
     IN /\ extinct_coeff' = [extinct_coeff EXCEPT ![w] = ec]
        /\ etable' = [etable EXCEPT ![region] = ec]
        /\ writes' = [writes EXCEPT ![region] = Append(@, w)]
  /\ wmsgs' = [wmsgs EXCEPT ![w] = @ + LogMsg(wverb[w])]
  /\ wpos' = [wpos EXCEPT ![w] = @ + 1]
  /\ UNCHANGED <<inputs, pc, err, ntemp, temp, allocated, nstarted, njoined,
                 wstate, windices, wverb, outfile, bs, rd, ge, mainverb>>

\* The loop over indices is exhausted: extinction() returns and the process
\* exits.
ExtinctionReturn(w) ==
  /\ wstate[w] = "running"
  /\ wpos[w] > Len(windices[w])
  /\ wstate' = [wstate EXCEPT ![w] = "done"]
  /\ UNCHANGED <<inputs, pc, err, ntemp, temp, allocated, etable, nstarted,
                 njoined, windices, wpos, extinct_coeff, wverb, writes,
                 outfile, bs, rd, ge, wmsgs, mainverb>>

\* A process dies before it has finished its cells (an exception raised in
\* extinction(), or the process is killed): nothing in lines 105-111 observes
\* it.
ExtinctionFail(w) ==
  /\ wstate[w] \in {"started", "running"}
  /\ wstate[w] = "running" => wpos[w] <= Len(windices[w])
  /\ wstate' = [wstate EXCEPT ![w] = "failed"]
  /\ UNCHANGED <<inputs, pc, err, ntemp, temp, allocated, etable, nstarted,
                 njoined, windices, wpos, extinct_coeff, wverb, writes,
                 outfile, bs, rd, ge, wmsgs, mainverb>>

Next ==
  \/ CheckParams
  \/ CheckTemp
  \/ MakeTemp
  \/ Allocate
  \/ StartProcess
  \/ JoinProcess
  \/ WriteOpacity
  \/ \E w \in Workers : ExtinctionBegin(w)
  \/ \E w \in Workers : ExtinctionCell(w)
  \/ \E w \in Workers : ExtinctionReturn(w)
  \/ \E w \in Workers : ExtinctionFail(w)

Spec == Init /\ [][Next]_vars

\* The table a single process produces when it is handed every cell in index
\* order (the loop of lines 159-204 over arange(ntemp*nlayers)): the build
\* with ncpu = 1.
RECURSIVE SerialRun(_, _, _)
SerialRun(tab, b, index) ==
  IF index >= ncells THEN tab
  ELSE LET ec == ComputeCell(b, index)
       IN SerialRun([tab EXCEPT ![<<Itemp(index), Ilayer(index)>>] = ec],
                    ec, index + 1)

SerialTable == SerialRun([r \in Regions |-> 0], 0, 0)

\* ------------------------------------------------------------------ claims
Started == 0 .. (nstarted - 1)

Procs == 0 .. (inputs.ncpu - 1)

Cells == 0 .. (ncells - 1)

AllStarted == pc \in {"join", "write", "persisted"}

AllDone == AllStarted /\ \A w \in Procs : wstate[w] = "done"

\* C1: the cells are statically partitioned among the ncpu processes: cell c
\* is in the index set of process (c mod ncpu) and of no other process; the
\* index sets are pairwise disjoint and, once all processes are started, their
\* union is exactly 0 .. ntemp*nlayers-1.
C1_StaticPartition ==
  /\ \A w \in Started : \A c \in Cells :
       (c \in Range(windices[w])) <=> (c % inputs.ncpu = w)
  /\ \A w \in Started : \A k \in 1 .. Len(windices[w]) :
       \A m \in 1 .. Len(windices[w]) : k < m => windices[w][k] < windices[w][m]
  /\ \A v \in Started : \A w \in Started :
       v # w => Range(windices[v]) \cap Range(windices[w]) = {}
  /\ AllStarted => UNION {Range(windices[w]) : w \in Procs} = Cells

C1_Witness ==
  /\ AllStarted
  /\ inputs.ncpu >= 2
  /\ ncells > inputs.ncpu
  /\ Len(windices[0]) >= 2

\* C2: under every interleaving, each region etable[:, itemp, ilayer] is
\* stored into only by the owner of cell itemp*nlayers+ilayer and at most once;
\* a process that has run to completion has stored each of its regions exactly
\* once, so after a build in which every process completes every region has
\* been written exactly once.
C2_SingleWriter ==
  allocated =>
    \A r \in Regions :
      LET owner == (r[1] * inputs.nlayers + r[2]) % inputs.ncpu
      IN /\ Len(writes[r]) <= 1
         /\ \A k \in 1 .. Len(writes[r]) : writes[r][k] = owner
         /\ (owner \in Started /\ wstate[owner] = "done") => writes[r] = <<owner>>

C2_Witness ==
  /\ AllDone
  /\ inputs.ncpu >= 2
  /\ ntemp >= 2
  /\ inputs.nlayers >= 2
  /\ \A r \in Regions : Len(writes[r]) = 1

\* C3: the table is written to the output file at most once, and only after
\* every one of the ncpu processes has been started, has terminated and has
\* been joined.
C3_WriteAfterJoin ==
  /\ Len(outfile) <= 1
  /\ Len(outfile) >= 1 =>
       /\ nstarted = inputs.ncpu
       /\ njoined = inputs.ncpu
       /\ \A w \in Procs : wstate[w] \in {"done", "failed"}
  /\ pc \in {"write", "persisted"} =>
       \A w \in Procs : wstate[w] \in {"done", "failed"}

C3_Witness ==
  /\ Len(outfile) = 1
  /\ inputs.ncpu >= 2
  /\ ncells >= 2

NothingBuilt ==
  /\ ~allocated
  /\ nstarted = 0
  /\ \A w \in Workers : wstate[w] = "none"
  /\ outfile = << >>

\* C4: when tmin is below the lowest, or tmax above the highest, available
\* temperature, compute_opacity ends in a fatal error with no table allocated,
\* no process started and no file written.
C4_TempRangeFatal ==
  ( /\ inputs.tmin # None
    /\ inputs.tmax # None
    /\ \/ inputs.tmin[1] < inputs.lbl_tmin
       \/ inputs.tmax[1] > inputs.lbl_tmax )
  => /\ NothingBuilt
     /\ pc \in {"configured", "params_ok", "failed"}

C4_Witness ==
  /\ pc = "failed"
  /\ err = "tmax above TLI range"
  /\ inputs.tmin[1] >= inputs.lbl_tmin

\* C5: when extfile, tmin, tmax, tstep or tlifile is missing, compute_opacity
\* ends in a fatal error with no table allocated, no process started and no
\* file written; the build gets past the parameter checks only when all of
\* them are present.
C5_MissingParamFatal ==
  LET missing == \/ inputs.extfile = None
                 \/ inputs.tmin = None
                 \/ inputs.tmax = None
                 \/ inputs.tstep = None
                 \/ inputs.tlifile = None
  IN /\ missing => (NothingBuilt /\ pc \in {"configured", "failed"})
     /\ pc \in {"params_ok", "validated", "sampled", "start", "join", "write",
                "persisted"} => ~missing

C5_Witness ==
  /\ pc = "failed"
  /\ err = "tlifile undefined"

\* Process w died with at least one of its assigned cells not stored.
FailedWithCellsLeft(w) ==
  /\ wstate[w] = "failed"
  /\ \E k \in 1 .. Len(windices[w]) :
       writes[<<Itemp(windices[w][k]), Ilayer(windices[w][k])>>] = << >>

\* C6: if any process fails during the build (it does not complete all of its
\* assigned cells), the table file is not written.
C6_FailedWorkerNoFile ==
  (\E w \in Procs : FailedWithCellsLeft(w)) => outfile = << >>

\* C7: the table written by a build in which every process completes is, cell
\* by cell, the table of the single-process build over the same inputs, for
\* every ncpu and every interleaving.
C7_SameAsSerial ==
  (pc = "persisted" /\ AllDone) =>
     /\ outfile = <<SerialTable>>
     /\ etable = SerialTable

C7_Witness ==
  /\ pc = "persisted"
  /\ AllDone
  /\ inputs.ncpu = 4
  /\ ncells >= 6
  /\ outfile = <<SerialTable>>

\* ----------------------------------------------------- dbdriver.binsearch
\* A database file of MaxLen records: record index -> its wavenumber key.
Records == 0 .. (MaxLen - 1)

KeyArrays == [Records -> 1 .. MaxKey]

Targets == 0 .. (MaxKey + 1)

\* repack.readwave: the key of record irec.
readwave(dbfile, irec) == dbfile[irec]

\* Line 137: irec = (ihi + ilo)//2
Midpoint(ilo, ihi) == (ihi + ilo) \div 2

\* SearchHigh that also moves the upper limit onto a record equal to wave.
SearchHighOrEqual(recwave, wave) == recwave >= wave

\* Line 142: the record lies above the target, so the upper limit moves.
SearchHigh(recwave, wave) == recwave > wave

\* StartRecord that starts at the lower limit in both directions.
StartRecordLow(searchup, ilo, ihi) == ilo

\* Lines 148-151: the record where the linear search starts.
StartRecord(searchup, ilo, ihi) == IF searchup THEN ilo ELSE ihi

\* NextCheck that moves two records at a time.
NextCheckSkip(searchup, icheck) == IF searchup THEN icheck + 2 ELSE icheck - 2

\* Lines 165 and 168: the next record to check.
NextCheck(searchup, icheck) == IF searchup THEN icheck + 1 ELSE icheck - 1

\* Lines 166 and 169: the checked record is still on the far side of wave.
Bounded(searchup, recwave, wave) ==
  IF searchup THEN recwave < wave ELSE recwave > wave

\* The call binsearch(dbfile, wave, ilo, ihi, searchup) at its first line
\* (lines 128-132).
SearchCall(dbfile, wave, ilo, ihi, searchup) ==
  [pc |-> "binary", dbfile |-> dbfile, wave |-> wave, ilo |-> ilo,
   ihi |-> ihi, imin |-> ilo, imax |-> ihi, searchup |-> searchup,
   irec |-> -1, icheck |-> -1, bounded |-> TRUE, reads |-> {}, steps |-> 0]

NoInputs ==
  [extfile |-> None, tmin |-> None, tmax |-> None, tstep |-> None,
   tlifile |-> None, lbl_tmin |-> 1, lbl_tmax |-> 1, ncpu |-> 1,
   nlayers |-> 1, verb |-> 0]

InitSearch ==
  /\ inputs = NoInputs
  /\ pc = "idle"
  /\ err = "none"
  /\ NoBuildState
  /\ rd = NoDriver
  /\ ge = NoGetEc
  /\ \E dbfile \in KeyArrays, wave \in Targets, ilo \in Records,
        ihi \in Records, searchup \in BOOLEAN :
       /\ ilo <= ihi
       /\ bs = SearchCall(dbfile, wave, ilo, ihi, searchup)

\* Lines 135-145: one iteration of the binary search.
BinaryStep ==
  /\ bs.pc = "binary"
  /\ bs.ihi - bs.ilo > 1
  /\ LET irec == Midpoint(bs.ilo, bs.ihi)
         recwave == readwave(bs.dbfile, irec)
     IN bs' = [bs EXCEPT !.irec = irec,
                         !.reads = @ \cup {irec},
                         !.steps = @ + 1,
                         !.ihi = IF SearchHigh(recwave, bs.wave) THEN irec ELSE @,
                         !.ilo = IF SearchHigh(recwave, bs.wave) THEN @ ELSE irec]
  /\ UNCHANGED <<buildvars, rd, ge>>

\* Lines 147-155: the binary search is over; set up the linear search.
LinearStart ==
  /\ bs.pc = "binary"
  /\ ~(bs.ihi - bs.ilo > 1)
  /\ LET irec == StartRecord(bs.searchup, bs.ilo, bs.ihi)
     IN bs' = [bs EXCEPT !.pc = "linear", !.irec = irec, !.icheck = irec,
                         !.bounded = TRUE]
  /\ UNCHANGED <<buildvars, rd, ge>>

\* AtBoundary that tests the lower index boundary only.
AtBoundaryLowerOnly(irec, imin, imax) == irec = imin

\* AtBoundary that tests the upper index boundary only.
AtBoundaryUpperOnly(irec, imin, imax) == irec = imax

\* Line 161: the index boundaries of the search.
AtBoundary(irec, imin, imax) == irec = imin \/ irec = imax

\* Lines 157-169: one iteration of the linear search; the loop is left by the
\* break at an index boundary or when bounded turns false, and line 172
\* returns irec. Reading a record that is not in the file raises (seek or
\* struct.unpack in readwave) and ends the search without a result.
LinearStep ==
  /\ bs.pc = "linear"
  /\ bs.bounded
  /\ LET irec == bs.icheck
     IN IF AtBoundary(irec, bs.imin, bs.imax)
          THEN bs' = [bs EXCEPT !.irec = irec, !.pc = "return",
                                !.steps = @ + 1]
          ELSE IF NextCheck(bs.searchup, bs.icheck) \notin DOMAIN bs.dbfile
          THEN bs' = [bs EXCEPT !.irec = irec, !.pc = "error",
                                !.icheck = NextCheck(bs.searchup, bs.icheck),
                                !.steps = @ + 1]
          ELSE LET icheck == NextCheck(bs.searchup, bs.icheck)
                   bounded == Bounded(bs.searchup,
                                      readwave(bs.dbfile, icheck), bs.wave)
               IN bs' = [bs EXCEPT !.irec = irec,
                                   !.icheck = icheck,
                                   !.bounded = bounded,
                                   !.reads = @ \cup {icheck},
                                   !.steps = @ + 1,
                                   !.pc = IF bounded THEN "linear" ELSE "return"]
  /\ UNCHANGED <<buildvars, rd, ge>>

NextSearch ==
  \/ BinaryStep
  \/ LinearStart
  \/ LinearStep

SpecSearch == InitSearch /\ [][NextSearch]_vars

\* The path binsearch takes depends on a key only through its order against
\* wave (lines 142, 166, 169): one target with keys below it, equal to it and
\* above it produces every path.
MidTarget == 2

InitSearchMid == InitSearch /\ bs.wave = MidTarget

\* binsearch is a sequential loop: whenever an iteration is possible it is
\* eventually taken.
SpecSearchFair == InitSearchMid /\ [][NextSearch]_vars /\ WF_vars(NextSearch)

Returned == bs.pc = "return"

\* The keys of the searched range are in ascending order.
SortedRange ==
  \A i \in bs.imin .. bs.imax : \A j \in bs.imin .. bs.imax :
    i <= j => bs.dbfile[i] <= bs.dbfile[j]

MinOf(S) == CHOOSE x \in S : \A y \in S : x <= y

MaxOf(S) == CHOOSE x \in S : \A y \in S : x >= y

C9_UpperBoundary ==
  (Returned /\ SortedRange /\ bs.searchup) =>
     LET K == bs.dbfile
         v == bs.wave
         below == {i \in bs.imin .. bs.imax : K[i] <= v}
     IN bs.irec = IF below = {} THEN bs.imin ELSE MaxOf(below)

\* The indices of [ilo, ihi] whose key equals the target.
RunOfTarget == {i \in bs.imin .. bs.imax : bs.dbfile[i] = bs.wave}

\* C10: when the target is the key of a run of several equal records, search
\* down returns the first index of the run and search up the last.
C10_RunEdge ==
  (Returned /\ SortedRange /\ Cardinality(RunOfTarget) >= 2) =>
     bs.irec = IF bs.searchup THEN MaxOf(RunOfTarget) ELSE MinOf(RunOfTarget)

\* C11: for every call with ilo <= ihi, any keys (sorted or not) and either
\* search direction, the returned record index lies in [ilo, ihi].
C11_ResultInRange ==
  Returned => (bs.imin <= bs.irec /\ bs.irec <= bs.imax)

C11_Witness ==
  /\ Returned
  /\ ~SortedRange
  /\ ~bs.searchup
  /\ bs.imin > 0
  /\ bs.irec = bs.imin
  /\ bs.imax - bs.imin >= 3
  /\ bs.dbfile[bs.imin - 1] > bs.wave

\* ------------------------------------------- database driver (repack, getiso)
MaxIso == 2

\* The 10-record database of the end-to-end scenario: 10, 20, ..., 100 cm-1.
ScenarioFile == [i \in 0 .. 9 |-> 10 * (i + 1)]

ScenarioWindow == <<35, 65>>

\* A file long enough for the read loop's checkpoints to matter, and a
\* window that covers it.
LongFile == [i \in 0 .. 12 |-> 5 * (i + 1)]

LongWindow == <<1, 70>>

\* Line-transition files: 1 to MaxLen records sorted ascending by wavenumber
\* (duplicates allowed), record index -> wavenumber.
DbFiles ==
  {f \in UNION {[0 .. (n - 1) -> 1 .. MaxKey] : n \in 1 .. MaxLen} :
     \A i \in DOMAIN f : \A j \in DOMAIN f : i <= j => f[i] <= f[j]}
  \cup {ScenarioFile, LongFile}

\* The requested windows [iwn, fwn].
Windows ==
  {w \in Targets \X Targets : w[1] <= w[2]}
  \cup {ScenarioWindow, LongWindow}

\* A driver object before its constructor runs. exists: the path dbfile names
\* a file; file: its records; variant: "repack" is repack.__init__, "fromfile"
\* a driver whose constructor calls getiso(fromfile=True).
NewDriver(variant, exists, file, pffile, niso) ==
  [pc |-> "new", variant |-> variant, exists |-> exists, file |-> file,
   pffile |-> pffile, niso |-> niso, isotopes |-> None, error |-> "none",
   iwn |-> 0, fwn |-> 0, nlines |-> 0, istart |-> -1, istop |-> -1,
   nsearch |-> 0, handles |-> 0, warnings |-> 0, retnone |-> FALSE,
   wnumber |-> << >>, progress |-> << >>, pf |-> None]

InitDriver ==
  /\ inputs = NoInputs
  /\ pc = "idle"
  /\ err = "none"
  /\ NoBuildState
  /\ bs = NoSearch
  /\ ge = NoGetEc
  /\ \E variant \in {"repack", "fromfile"}, exists \in BOOLEAN,
        file \in DbFiles, pffile \in {"ctips", "poly", "tabulated"},
        niso \in 1 .. MaxIso :
       /\ ~exists => file = ScenarioFile
       /\ rd = NewDriver(variant, exists, file, pffile, niso)

\* The isotope names getiso collects from isotopes.dat for the molecule.
IsotopeNames(niso) == [i \in 1 .. niso |-> i]

\* getiso, lines 201-210: with fromfile the database file must exist
\* (log.error is fatal); without it the file is not looked at. The isotopes
\* loaded, or None after the fatal error.
getiso(fromfile, exists, niso) ==
  IF fromfile /\ ~exists THEN None ELSE Some(IsotopeNames(niso))

\* repack.__init__ (lines 29-44) calls getiso(molname=..., dbtype=...), a
\* fromfile driver calls getiso(fromfile=True).
Construct ==
  /\ rd.pc = "new"
  /\ LET iso == getiso(rd.variant = "fromfile", rd.exists, rd.niso)
     IN rd' = IF iso = None
                THEN [rd EXCEPT !.pc = "failed",
                                !.error = "database file does not exist"]
                ELSE [rd EXCEPT !.pc = "ready", !.isotopes = iso]
  /\ UNCHANGED <<buildvars, bs, ge>>

\* NoOverlap that tests the upper end of the file only.
NoOverlapUpperOnly(iwn, fwn, DBiwn, DBfwn) == iwn > DBfwn

\* repack.dbread line 101: the window does not overlap the file's range.
NoOverlap(iwn, fwn, DBiwn, DBfwn) == iwn > DBfwn \/ fwn < DBiwn

\* repack.dbread lines 92-109: open the file, compare the window with the
\* first and last keys, and either warn and return None or start the search
\* for iwn. open() raises when the file does not exist.
DbreadOpen ==
  /\ rd.pc = "ready"
  /\ \E w \in Windows :
       IF ~rd.exists
         THEN /\ rd' = [rd EXCEPT !.pc = "failed", !.iwn = w[1], !.fwn = w[2],
                                  !.error = "FileNotFoundError"]
              /\ bs' = bs
         ELSE LET nlines == Cardinality(DOMAIN rd.file)
                  DBiwn == readwave(rd.file, 0)
                  DBfwn == readwave(rd.file, nlines - 1)
              IN IF NoOverlap(w[1], w[2], DBiwn, DBfwn)
                   THEN /\ rd' = [rd EXCEPT !.pc = "returned", !.iwn = w[1],
                                            !.fwn = w[2], !.nlines = nlines,
                                            !.handles = @ + 1,
                                            !.warnings = @ + 1,
                                            !.retnone = TRUE]
                        /\ bs' = bs
                   ELSE /\ rd' = [rd EXCEPT !.pc = "search_start",
                                            !.iwn = w[1], !.fwn = w[2],
                                            !.nlines = nlines,
                                            !.handles = @ + 1,
                                            !.nsearch = @ + 1]
                        /\ bs' = SearchCall(rd.file, w[1], 0, nlines - 1, FALSE)
  /\ UNCHANGED <<buildvars, ge>>

\* StopSearchLow that searches the whole file again.
StopSearchLowZero(istart) == 0

\* repack.dbread line 110: the lowest record of the search for fwn.
StopSearchLow(istart) == istart

\* repack.dbread lines 109-110: istart is returned; start the search for fwn.
DbreadStop ==
  /\ rd.pc = "search_start"
  /\ bs.pc = "return"
  /\ rd' = [rd EXCEPT !.pc = "search_stop", !.istart = bs.irec,
                      !.nsearch = @ + 1]
  /\ bs' = SearchCall(rd.file, rd.fwn, StopSearchLow(bs.irec),
                      rd.nlines - 1, TRUE)
  /\ UNCHANGED <<buildvars, ge>>

\* repack.dbread lines 127-142: the records istart .. istart+nread-1.
ReadRecords(file, istart, nread) == [i \in 1 .. nread |-> file[istart + i - 1]]

\* Lines 123-125: the check-point interval.
Interval(istart, istop) ==
  IF (istop - istart) \div 10 = 0 THEN 1 ELSE (istop - istart) \div 10

\* Lines 127-142: the percentages of the check-point messages of the read
\* loop, in order: one for every i < nread with i % interval = 0 and i # 0,
\* reporting 10*i/interval.
Progress(nread, interval) ==
  LET checkpoints == {i \in 0 .. (nread - 1) : i % interval = 0 /\ i # 0}
      at == SortedSeq(checkpoints)
  IN [k \in DOMAIN at |-> (10 * at[k]) \div interval]

\* repack.dbread lines 110-153: istop is returned; read the nread records,
\* close the file and return the arrays. With nread < 1 the allocation
\* (np.zeros) or np.amax of the empty isotope array raises.
DbreadRead ==
  /\ rd.pc = "search_stop"
  /\ bs.pc = "return"
  /\ LET istop == bs.irec
         nread == istop - rd.istart + 1
     IN rd' = IF nread < 1
                THEN [rd EXCEPT !.pc = "failed", !.istop = istop,
                                !.error = "ValueError"]
                ELSE [rd EXCEPT !.pc = "returned", !.istop = istop,
                                !.handles = @ - 1,
                                !.wnumber = ReadRecords(rd.file, rd.istart,
                                                        nread),
                                !.progress =
                                  Progress(nread,
                                           Interval(rd.istart, istop))]
  /\ bs' = bs
  /\ UNCHANGED <<buildvars, ge>>

\* ArangeLen that drops the partial last step.
ArangeLenFloor(start, stop, step) ==
  IF stop <= start THEN 0 ELSE (stop - start) \div step

\* The number of samples of np.arange(start, stop, step): the values
\* start + k*step below stop, ceil((stop - start)/step) of them.
ArangeLen(start, stop, step) ==
  IF stop <= start THEN 0 ELSE (stop - start + step - 1) \div step

\* np.arange(start, stop, step).
Arange(start, stop, step) ==
  [k \in 1 .. ArangeLen(start, stop, step) |-> start + (k - 1) * step]

\* getpf lines 40 and 55, and the temperature column of a tabulated file
\* (line 82). Temperatures are in tenths of a kelvin: np.arange(70.0, 3000.1,
\* 10.0) is Arange(700, 30001, 100).
GetpfTemp(pffile) ==
  IF pffile = "ctips" THEN Arange(700, 30001, 100)
  ELSE IF pffile = "poly" THEN Arange(10000, 70010, 500)
  ELSE <<1000, 2000, 3000>>

\* getpf lines 43-49 and 62-75: the table np.zeros((niso, ntemp)) with row i
\* filled for isotope i (the values themselves are not modelled).
GetpfTable(niso, nt) == [i \in 1 .. niso |-> [k \in 1 .. nt |-> 1]]

\* dbdriver.getpf, lines 34-83.
Getpf ==
  /\ rd.pc = "ready"
  /\ LET T == GetpfTemp(rd.pffile)
     IN rd' = [rd EXCEPT !.pc = "pf_returned",
                         !.pf = Some([temp |-> T,
                                      PF |-> GetpfTable(Len(rd.isotopes[1]),
                                                        Len(T)),
                                      isotopes |-> rd.isotopes[1]])]
  /\ UNCHANGED <<buildvars, bs, ge>>

NextDriver ==
  \/ Construct
  \/ Getpf
  \/ DbreadOpen
  \/ BinaryStep
  \/ LinearStart
  \/ LinearStep
  \/ DbreadStop
  \/ DbreadRead

SpecDriver == InitDriver /\ [][NextDriver]_vars

\* The window of the dbread call overlaps the file's wavenumber range.
Overlaps ==
  /\ rd.iwn <= rd.file[Cardinality(DOMAIN rd.file) - 1]
  /\ rd.fwn >= rd.file[0]

DbreadCalled == rd.pc \in {"search_start", "search_stop", "returned"}

InScenario ==
  /\ DbreadCalled
  /\ rd.file = ScenarioFile
  /\ <<rd.iwn, rd.fwn>> = ScenarioWindow

\* C12: for the 10-record database 10, 20, ..., 100 and the window [35, 65],
\* dbread finds istart = 3 and istop = 5 and reads exactly the records 40, 50
\* and 60.
C12_ScenarioIndices ==
  InScenario =>
    /\ rd.pc \in {"search_stop", "returned"} => rd.istart = 3
    /\ rd.pc = "returned" =>
         /\ rd.istop = 5
         /\ ~rd.retnone
         /\ rd.wnumber = <<40, 50, 60>>

C12_Witness ==
  /\ InScenario
  /\ rd.pc = "returned"
  /\ rd.istart = 3
  /\ rd.istop = 5
  /\ rd.wnumber = <<40, 50, 60>>

\* C13: whenever the window overlaps the file's range, dbread returns a
\* non-empty record sequence: 0 <= istart <= istop <= nlines-1 and
\* nread = istop - istart + 1 >= 1; reading an existing file never fails on
\* an empty or negative record count.
C13_NonEmptyOnOverlap ==
  /\ rd.exists => rd.pc # "failed"
  /\ (DbreadCalled /\ Overlaps) =>
       /\ rd.pc \in {"search_stop", "returned"} =>
            (0 <= rd.istart /\ rd.istart <= rd.nlines - 1)
       /\ rd.pc = "returned" =>
            /\ ~rd.retnone
            /\ rd.istart <= rd.istop
            /\ rd.istop <= rd.nlines - 1
            /\ Len(rd.wnumber) = rd.istop - rd.istart + 1
            /\ Len(rd.wnumber) >= 1

C13_Witness ==
  /\ rd.pc = "returned"
  /\ Overlaps
  /\ rd.istart > 0
  /\ rd.istop < rd.nlines - 1
  /\ Len(rd.wnumber) >= 2

\* C14: whenever the window overlaps the file's range, every record returned
\* by dbread has its wavenumber inside [iwn, fwn].
C14_RecordsInWindow ==
  (rd.pc = "returned" /\ Overlaps) =>
    \A k \in 1 .. Len(rd.wnumber) :
      rd.iwn <= rd.wnumber[k] /\ rd.wnumber[k] <= rd.fwn

\* C15: when the window does not overlap the file's range, dbread warns once,
\* returns no records, raises no error and never calls binsearch; a search is
\* only ever started for an overlapping window.
C15_NoOverlapWarns ==
  /\ (DbreadCalled /\ ~Overlaps) =>
       /\ rd.pc = "returned"
       /\ rd.retnone
       /\ rd.wnumber = << >>
       /\ rd.warnings = 1
       /\ rd.nsearch = 0
       /\ bs = NoSearch
  /\ (rd.nsearch > 0 \/ bs # NoSearch) => Overlaps

C15_Witness ==
  /\ rd.pc = "returned"
  /\ rd.retnone
  /\ rd.warnings = 1
  /\ rd.fwn < rd.file[0]
  /\ rd.nlines >= 2

\* C18: getpf returns the grid 1000, 1050, ..., 7000 K (121 samples) for
\* "poly" and 70, 80, ..., 3000 K (294 samples) for "ctips" (in tenths of a
\* kelvin here), with a table of one row per isotope and one column per
\* temperature sample.
C18_PfGrids ==
  (rd.pc = "pf_returned" /\ rd.pffile \in {"poly", "ctips"}) =>
    LET r == rd.pf[1]
        n == IF rd.pffile = "poly" THEN 121 ELSE 294
        first == IF rd.pffile = "poly" THEN 10000 ELSE 700
        last == IF rd.pffile = "poly" THEN 70000 ELSE 30000
        step == IF rd.pffile = "poly" THEN 500 ELSE 100
    IN /\ Len(r.temp) = n
       /\ r.temp[1] = first
       /\ r.temp[n] = last
       /\ \A k \in 1 .. n : r.temp[k] = first + (k - 1) * step
       /\ Len(r.PF) = rd.niso
       /\ Len(r.isotopes) = rd.niso
       /\ \A i \in 1 .. rd.niso : Len(r.PF[i]) = n

C18_Witness ==
  /\ rd.pc = "pf_returned"
  /\ rd.pffile = "ctips"
  /\ rd.niso >= 2
  /\ Len(rd.pf[1].temp) = 294

\* C19: a driver on a path that does not exist never gets its isotope
\* metadata: construction fails, for the repack driver as for
\* getiso(fromfile=True).
C19_MissingFileFails ==
  ~rd.exists => (rd.isotopes = None /\ rd.pc \in {"new", "failed"})

\* ------------------------------------------------ verbosity of the build
\* The processes that have entered the loop over their indices.
Looping == {w \in Started : wstate[w] \in {"running", "done"}}

OwnsFirstCell(w) == 0 \in Range(windices[w])

\* C16: during a grid build the process whose index set contains cell 0 keeps
\* the configured verbosity and logs one progress message per cell; every
\* other process runs with verbosity 0 and logs nothing, so at most one
\* process emits progress messages.
C16_OneLogger ==
  /\ \A w \in Looping :
       /\ wverb[w] = IF OwnsFirstCell(w) THEN inputs.verb ELSE 0
       /\ wmsgs[w] = IF OwnsFirstCell(w) THEN wpos[w] - 1 ELSE 0
  /\ \A w \in Workers : wmsgs[w] > 0 => (w \in Started /\ OwnsFirstCell(w))
  /\ Cardinality({w \in Workers : wmsgs[w] > 0}) <= 1

C16_Witness ==
  /\ pc = "persisted"
  /\ \E w, v \in Started :
       /\ OwnsFirstCell(w)
       /\ wverb[w] = inputs.verb
       /\ wmsgs[w] >= 2
       /\ ~OwnsFirstCell(v)
       /\ Len(windices[v]) >= 2
       /\ wstate[v] = "done"
       /\ wverb[v] = 0
       /\ wmsgs[v] = 0

\* A step taken by one of the forked processes.
WorkerStep == wpos' # wpos \/ (wstate' # wstate /\ nstarted' = nstarted)

\* C20: the steps of the worker processes change nothing of the state the
\* orchestrator holds besides the opacity table: the configuration and
\* line-transition inputs, the temperature grid and the log verbosity are the
\* same after every worker step, and the orchestrator's verbosity stays the
\* configured one.
C20_SharedStateReadOnly ==
  [][WorkerStep =>
       /\ UNCHANGED <<inputs, ntemp, temp, allocated, mainverb, pc, err,
                      nstarted, njoined, windices, outfile>>
       /\ mainverb' = inputs.verb]_vars

C20_Witness ==
  /\ pc = "persisted"
  /\ mainverb = inputs.verb
  /\ mainverb > 0
  /\ \E w \in Started :
       /\ wstate[w] = "done"
       /\ wpos[w] > 1
       /\ wverb[w] = 0

\* ----------------------------------------------------------------- get_ec
MaxSpec == 3

SpeciesNames == <<"H2O", "CO", "CH4", "CO2", "NH3", "HCN">>

Species == {SpeciesNames[k] : k \in 1 .. MaxSpec}

\* The sequences of distinct members of S: species lists hold no name twice.
Arrangements(S) ==
  {q \in UNION {[1 .. n -> S] : n \in 1 .. Cardinality(S)} :
     \A a, b \in DOMAIN q : a # b => q[a] # q[b]}

\* atm.d[layer, imol]: the number density of species imol at a layer.
Density(layer, imol) == 2 + layer + 3 * imol

\* The state of a Pyrat object on which get_ec(pyrat, layer) is called:
\* ex.species are species of the atmosphere, the layer is one of the
\* atmosphere's layers.
InitGetEc ==
  /\ inputs = NoInputs
  /\ pc = "idle"
  /\ err = "none"
  /\ NoBuildState
  /\ bs = NoSearch
  /\ rd = NoDriver
  /\ \E atm_species \in Arrangements(Species), nlayers \in 1 .. MaxLayers,
        verb \in {0, 2}, table \in {None, Some(5)} :
       \E ex_species \in Arrangements(Range(atm_species)),
          layer \in 0 .. (nlayers - 1) :
         ge = [pc |-> "call", layer |-> layer, nlayers |-> nlayers,
               atm_species |-> atm_species, ex_species |-> ex_species,
               verb |-> verb, logverb |-> verb, msgs |-> 0, nprocs |-> 0,
               etable |-> table, ec |-> [l \in 0 .. (nlayers - 1) |-> 0],
               before |-> [etable |-> table,
                           ec |-> [l \in 0 .. (nlayers - 1) |-> 0]],
               cells |-> << >>, exc |-> None, label |-> << >>, i |-> 0,
               error |-> "none"]

\* Store that treats a call without grid as a co-added one.
StoreAdd(grid, add) == IF grid THEN "etable" ELSE "ec"

\* Lines 203-208: where extinction() puts the spectrum of a cell.
Store(grid, add) ==
  IF grid THEN "etable" ELSE IF add THEN "ec" ELSE "return"

\* Lines 189-201 with add=0: ec.extinction fills one cross-section spectrum
\* per species of ex.species for the layer it is handed.
SpeciesSpectrum(species, ilayer) ==
  [k \in 1 .. Len(species) |->
     100 * (CHOOSE n \in DOMAIN SpeciesNames : SpeciesNames[n] = species[k])
       + ilayer + 1]

\* Line 215: extinction(pyrat, [layer], grid=False, add=False), lines
\* 138-208: the process's own log.verb is set, the one index is looped over,
\* and the spectrum goes where Store says.
GetEcExtinction ==
  /\ ge.pc = "call"
  /\ LET indices == <<ge.layer>>
         logverb == WorkerVerb(indices, ge.logverb)
         ilayer == ge.layer % ge.nlayers
         extinct == SpeciesSpectrum(ge.ex_species, ilayer)
         mode == Store(FALSE, FALSE)
     IN ge' = [ge EXCEPT
                 !.pc = "labels",
                 !.logverb = logverb,
                 !.msgs = @ + LogMsg(logverb),
                 !.cells = Append(@, ilayer),
                 !.etable = IF mode = "etable" THEN Some(extinct) ELSE @,
                 !.ec = IF mode = "ec"
                        THEN [@ EXCEPT ![ilayer] = extinct[1]] ELSE @,
                 !.exc = IF mode = "return" THEN Some(extinct) ELSE None]
  /\ UNCHANGED <<buildvars, bs, rd>>

\* np.where(seq == x)[0][0]: the first position of x (positions from 1).
WhereFirst(seq, x) ==
  CHOOSE k \in DOMAIN seq : seq[k] = x /\ \A j \in 1 .. (k - 1) : seq[j] # x

\* Lines 217-220: one iteration of the loop over the nspec species.
GetEcLabel ==
  /\ ge.pc = "labels"
  /\ ge.i < Len(ge.ex_species)
  /\ IF ge.exc = None
     THEN ge' = [ge EXCEPT !.pc = "failed", !.error = "TypeError"]
     ELSE LET i == ge.i + 1
              imol == WhereFirst(ge.atm_species, ge.ex_species[i])
          IN ge' = [ge EXCEPT
                      !.exc = Some([@[1] EXCEPT
                                      ![i] = @ * Density(ge.layer, imol)]),
                      !.label = Append(@, ge.atm_species[imol]),
                      !.i = i]
  /\ UNCHANGED <<buildvars, bs, rd>>

\* Line 221: return exc, label
GetEcReturn ==
  /\ ge.pc = "labels"
  /\ ge.i = Len(ge.ex_species)
  /\ ge' = [ge EXCEPT !.pc = "returned"]
  /\ UNCHANGED <<buildvars, bs, rd>>

NextGetEc == GetEcExtinction \/ GetEcLabel \/ GetEcReturn

SpecGetEc == InitGetEc /\ [][NextGetEc]_vars

\* C17: get_ec computes exactly one cell, the requested layer, in the calling
\* process: no process is started, etable and ex.ec are left as they were,
\* the call does not fail, and it returns nspec spectra and nspec labels with
\* label i the species ex.species[i] and spectrum i that species'
\* cross-section at the layer times its density there.
C17_SingleLayer ==
  /\ ge.pc # "failed"
  /\ ge.pc \in {"labels", "returned"} =>
       /\ ge.cells = <<ge.layer>>
       /\ ge.nprocs = 0
       /\ ge.etable = ge.before.etable
       /\ ge.ec = ge.before.ec
       /\ nstarted = 0
       /\ etable = << >>
  /\ ge.pc = "returned" =>
       LET nspec == Len(ge.ex_species)
       IN /\ Len(ge.exc[1]) = nspec
          /\ Len(ge.label) = nspec
          /\ \A k \in 1 .. nspec :
               /\ ge.label[k] = ge.ex_species[k]
               /\ ge.exc[1][k] =
                    SpeciesSpectrum(ge.ex_species, ge.layer)[k]
                      * Density(ge.layer,
                                WhereFirst(ge.atm_species, ge.ex_species[k]))

C17_Witness ==
  /\ ge.pc = "returned"
  /\ Len(ge.ex_species) >= 2
  /\ Len(ge.atm_species) > Len(ge.ex_species)
  /\ ge.ex_species[1] # ge.atm_species[1]
  /\ ge.layer > 0
  /\ ge.before.etable # None
  /\ Len(ge.label) = Len(ge.ex_species)

\* ------------------------------------------------- temperature axis claims
SomeCellComputed == \E r \in DOMAIN writes : writes[r] # << >>

\* C22: once a cell of the table has been computed, the temperature axis is
\* ascending and every temperature on it lies within the partition-function
\* coverage [lbl.tmin, lbl.tmax] and within the requested [tmin, tmax].
C22_TempAxisInRange ==
  SomeCellComputed =>
    /\ \A k \in DOMAIN temp :
         /\ inputs.lbl_tmin <= temp[k] /\ temp[k] <= inputs.lbl_tmax
         /\ inputs.tmin[1] <= temp[k] /\ temp[k] <= inputs.tmax[1]
    /\ \A j, k \in DOMAIN temp : j < k => temp[j] < temp[k]

\* ---------------------------------------------------- dbread, continued
\* C23: whenever the window overlaps the file's range, dbread returns every
\* record of the file whose wavenumber lies in [iwn, fwn], those equal to
\* iwn or fwn and the first and last records of the file included.
C23_AllRecordsInWindow ==
  (rd.pc = "returned" /\ Overlaps) =>
    \A i \in DOMAIN rd.file :
      (rd.iwn <= rd.file[i] /\ rd.file[i] <= rd.fwn) =>
        (rd.istart <= i /\ i <= rd.istop)

\* C24: a dbread call that reads records emits at most 10 progress
\* notifications, each reporting a percentage in (0, 100].
C24_ProgressTenths ==
  (rd.pc = "returned" /\ ~rd.retnone) =>
    /\ Len(rd.progress) <= 10
    /\ \A k \in DOMAIN rd.progress :
         0 < rd.progress[k] /\ rd.progress[k] <= 100

\* C27: after dbread returns, with records or with the non-overlap warning,
\* no file handle opened by the call remains open.
C27_FileClosed ==
  rd.pc = "returned" => rd.handles = 0

\* ------------------------------------------------- binsearch, continued
\* C25: every record index binsearch reads, in the binary phase and in the
\* linear refinement, lies in [ilo, ihi] of the call, and no read fails,
\* sorted keys or not.
C25_ReadsInRange ==
  /\ bs.pc # "error"
  /\ bs.pc # "idle" => \A i \in bs.reads : bs.imin <= i /\ i <= bs.imax

C25_Witness ==
  /\ Returned
  /\ ~bs.bounded
  /\ bs.icheck \in bs.reads
  /\ bs.icheck \in {bs.imin, bs.imax}
  /\ Cardinality(bs.reads) >= 2
  /\ bs.imin > 0
  /\ bs.imax < MaxLen - 1

\* C26: binsearch terminates for every call with ilo <= ihi, sorted keys or
\* not: it eventually returns, and every iteration of the binary phase
\* strictly shrinks ihi - ilo.
C26_Terminates ==
  /\ <>Returned
  /\ [][(bs.pc = "binary" /\ bs'.pc = "binary") =>
          (bs'.ihi - bs'.ilo < bs.ihi - bs.ilo)]_vars

C26_Witness ==
  /\ Returned
  /\ ~SortedRange
  /\ bs.bounded
  /\ bs.steps >= 4
  /\ bs.ihi - bs.ilo <= 1
  /\ bs.irec \in {bs.imin, bs.imax}

\* ------------------------------------------------- get_ec, continued
\* C28: after get_ec returns, for any layer, pyrat.log.verb has the value it
\* had before the call.
C28_VerbRestored ==
  ge.pc = "returned" => ge.logverb = ge.verb

\* ------------------------------------------------------------ voplez
\* Wavenumbers (cm-1) whose wavelength in microns is a whole number.
VoFileKeys == {5000, 2500, 2000, 1250}

VoWindowKeys == VoFileKeys \cup {10000, 1000, 625}

\* Line 75: 1.0/(wave*pc.um), the wavelength in microns of a wavenumber in
\* cm-1.
Wavelength(wn) == 10000 \div wn

\* The Plez VO files: 1 to MaxLen records in increasing wavelength order,
\* record index -> wavenumber.
VoFiles ==
  {f \in UNION {[0 .. (n - 1) -> VoFileKeys] : n \in 1 .. MaxLen} :
     \A i \in DOMAIN f : \A j \in DOMAIN f :
       i <= j => Wavelength(f[i]) <= Wavelength(f[j])}

VoWindows == {w \in VoWindowKeys \X VoWindowKeys : w[1] <= w[2]}

\* Lines 54-75: voplez.readwave over the records of a file.
VoReadwave(file) == [i \in DOMAIN file |-> Wavelength(file[i])]

\* A voplez object before its constructor runs.
InitVoplez ==
  /\ inputs = NoInputs
  /\ pc = "idle"
  /\ err = "none"
  /\ NoBuildState
  /\ bs = NoSearch
  /\ ge = NoGetEc
  /\ \E exists \in BOOLEAN, file \in VoFiles, verbose \in {1, 2} :
       rd = [pc |-> "new", variant |-> "voplez", exists |-> exists,
             file |-> file, verbose |-> verbose, isotopes |-> None,
             error |-> "none", iwn |-> 0, fwn |-> 0, iwl |-> 0, fwl |-> 0,
             nlines |-> 0, istart |-> -1, istop |-> -1, nsearch |-> 0,
             handles |-> 0, warnings |-> 0, retnone |-> FALSE,
             wnumber |-> << >>, progress |-> << >>]

\* Lines 19-51: the constructor sets the metadata; it does not touch the file.
VoplezConstruct ==
  /\ rd.pc = "new"
  /\ rd.variant = "voplez"
  /\ rd' = [rd EXCEPT !.pc = "ready", !.isotopes = Some(<<"16">>)]
  /\ UNCHANGED <<buildvars, bs, ge>>

\* Lines 115-126: open the file, count the records, convert the window to
\* wavelengths and start the search for iwl.
VoplezOpen ==
  /\ rd.pc = "ready"
  /\ rd.variant = "voplez"
  /\ \E w \in VoWindows :
       IF ~rd.exists
         THEN /\ rd' = [rd EXCEPT !.pc = "failed", !.iwn = w[1],
                                  !.fwn = w[2], !.error = "IOError"]
              /\ bs' = bs
         ELSE LET nlines == Cardinality(DOMAIN rd.file)
                  iwl == Wavelength(w[2])
                  fwl == Wavelength(w[1])
              IN /\ rd' = [rd EXCEPT !.pc = "search_start", !.iwn = w[1],
                                     !.fwn = w[2], !.iwl = iwl, !.fwl = fwl,
                                     !.nlines = nlines, !.handles = @ + 1,
                                     !.nsearch = @ + 1]
                 /\ bs' = SearchCall(VoReadwave(rd.file), iwl, 0, nlines - 1,
                                     FALSE)
  /\ UNCHANGED <<buildvars, ge>>

\* Lines 126-127: istart is returned; start the search for fwl.
VoplezStop ==
  /\ rd.pc = "search_start"
  /\ rd.variant = "voplez"
  /\ bs.pc = "return"
  /\ rd' = [rd EXCEPT !.pc = "search_stop", !.istart = bs.irec,
                      !.nsearch = @ + 1]
  /\ bs' = SearchCall(VoReadwave(rd.file), rd.fwl, bs.irec, rd.nlines - 1,
                      TRUE)
  /\ UNCHANGED <<buildvars, ge>>

\* Lines 144-151: the records are read from istop downwards.
VoReadRecords(file, istop, nread) ==
  [i \in 1 .. nread |-> file[istop - (i - 1)]]

\* Lines 127-169: istop is returned; read the records, close the file and
\* return the arrays. With verbose > 1 the check-point test divides by the
\* interval, which is 0 for fewer than 11 records.
VoplezRead ==
  /\ rd.pc = "search_stop"
  /\ rd.variant = "voplez"
  /\ bs.pc = "return"
  /\ LET istop == bs.irec
         nread == istop - rd.istart + 1
         interval == (istop - rd.istart) \div 10
     IN rd' = IF nread < 0
                THEN [rd EXCEPT !.pc = "failed", !.istop = istop,
                                !.error = "ValueError"]
                ELSE IF nread > 0 /\ rd.verbose > 1 /\ interval = 0
                THEN [rd EXCEPT !.pc = "failed", !.istop = istop,
                                !.error = "ZeroDivisionError"]
                ELSE [rd EXCEPT !.pc = "returned", !.istop = istop,
                                !.handles = @ - 1,
                                !.wnumber = VoReadRecords(rd.file, istop,
                                                          nread)]
  /\ bs' = bs
  /\ UNCHANGED <<buildvars, ge>>

NextVoplez ==
  \/ VoplezConstruct
  \/ VoplezOpen
  \/ BinaryStep
  \/ LinearStart
  \/ LinearStep
  \/ VoplezStop
  \/ VoplezRead

SpecVoplez == InitVoplez /\ [][NextVoplez]_vars

\* The window [iwn, fwn] overlaps the wavenumbers the file covers: its first
\* record holds the largest wavenumber, its last the smallest.
VoOverlaps ==
  /\ rd.iwn <= rd.file[0]
  /\ rd.fwn >= rd.file[Cardinality(DOMAIN rd.file) - 1]

\* C29: when the window does not overlap the file's range, voplez.dbread
\* returns no records and emits a warning.
C29_VoplezNoOverlap ==
  (rd.pc = "returned" /\ ~VoOverlaps) =>
    (rd.wnumber = << >> /\ rd.warnings >= 1)

\* ------------------------------------------------------ ptools.binsearch
\* The wavelength arrays of a TLI file: 1 to MaxLen records sorted ascending,
\* record index -> wavelength.
TliArrays ==
  {f \in UNION {[0 .. (n - 1) -> 1 .. MaxKey] : n \in 1 .. MaxLen} :
     \A i \in DOMAIN f : \A j \in DOMAIN f : i <= j => f[i] <= f[j]}

\* Lines 170-171 and 192-194: the wavelength of record irec.
ReadWl(dbfile, irec) == dbfile[irec]

\* np.sign
Sign(x) == IF x > 0 THEN 1 ELSE IF x < 0 THEN -1 ELSE 0

\* np.clip(irec, 0, nrec)
Clip(irec, lo, hi) == IF irec < lo THEN lo ELSE IF irec > hi THEN hi ELSE irec

\* Line 198: irec - (jump+upper)/2, the division rounding down.
ReturnIndex(irec, jump, upper) ==
  irec - ((jump + (IF upper THEN 1 ELSE 0)) \div 2)

\* The call binsearch(dbfile, wavelength, rec0, nrec, upper) at lines
\* 161-162, nrec the index of the last record; irec and rec_wl are not bound
\* before the first iteration of the binary search.
InitPtSearch ==
  /\ inputs = NoInputs
  /\ pc = "idle"
  /\ err = "none"
  /\ NoBuildState
  /\ rd = NoDriver
  /\ ge = NoGetEc
  /\ \E dbfile \in TliArrays, wavelength \in Targets, upper \in BOOLEAN :
       bs = [pc |-> "pt_binary", dbfile |-> dbfile,
             wavelength |-> wavelength, upper |-> upper,
             nrec |-> Cardinality(DOMAIN dbfile) - 1,
             ilo |-> 0, ihi |-> Cardinality(DOMAIN dbfile) - 1,
             irec |-> None, rec_wl |-> None, next_wl |-> None,
             jump |-> 0, result |-> None, error |-> "none"]

\* Lines 165-176: one iteration of the binary search.
PtBinaryStep ==
  /\ bs.pc = "pt_binary"
  /\ bs.ihi - bs.ilo > 1
  /\ LET irec == (bs.ihi + bs.ilo) \div 2
         rec_wl == ReadWl(bs.dbfile, irec)
     IN bs' = [bs EXCEPT !.irec = Some(irec), !.rec_wl = Some(rec_wl),
                         !.ihi = IF rec_wl > bs.wavelength THEN irec ELSE @,
                         !.ilo = IF rec_wl > bs.wavelength THEN @ ELSE irec]
  /\ UNCHANGED <<buildvars, rd, ge>>

\* Lines 180-186: the direction of the sequential search and its first read;
\* without a binary iteration rec_wl is unbound.
PtSequentialStart ==
  /\ bs.pc = "pt_binary"
  /\ ~(bs.ihi - bs.ilo > 1)
  /\ bs' = IF bs.rec_wl = None
             THEN [bs EXCEPT !.pc = "pt_error",
                             !.error = "UnboundLocalError"]
             ELSE [bs EXCEPT !.pc = "pt_sequential",
                             !.jump = IF bs.rec_wl[1] < bs.wavelength
                                      THEN 1 ELSE -1,
                             !.next_wl = Some(ReadWl(bs.dbfile, bs.irec[1]))]
  /\ UNCHANGED <<buildvars, rd, ge>>

\* Lines 187-198: the loop test and one iteration of the sequential search,
\* with the return at a boundary (line 191) or after the loop (line 198).
PtSequentialStep ==
  /\ bs.pc = "pt_sequential"
  /\ LET same == Sign(bs.next_wl[1] - bs.wavelength)
                   = Sign(bs.rec_wl[1] - bs.wavelength)
         irec == bs.irec[1] + bs.jump
     IN bs' = IF ~same
                THEN [bs EXCEPT !.pc = "pt_return",
                                !.result = Some(ReturnIndex(bs.irec[1],
                                                            bs.jump,
                                                            bs.upper))]
                ELSE IF irec < 0 \/ irec > bs.nrec
                THEN [bs EXCEPT !.pc = "pt_return", !.irec = Some(irec),
                                !.result = Some(Clip(irec, 0, bs.nrec))]
                ELSE [bs EXCEPT !.irec = Some(irec), !.rec_wl = bs.next_wl,
                                !.next_wl = Some(ReadWl(bs.dbfile, irec))]
  /\ UNCHANGED <<buildvars, rd, ge>>

NextPtSearch == PtBinaryStep \/ PtSequentialStart \/ PtSequentialStep

SpecPtSearch == InitPtSearch /\ [][NextPtSearch]_vars

\* The records below the target wavelength.
SmallerRecords == {i \in DOMAIN bs.dbfile : bs.dbfile[i] < bs.wavelength}

\* C30: with upper=True and keys sorted ascending, whenever some record lies
\* below the target, ptools.binsearch returns the last record whose
\* wavelength is smaller than the target, whether or not the target equals a
\* stored key.
C30_UpperLastSmaller ==
  (bs.pc = "pt_return" /\ bs.upper /\ SmallerRecords # {}) =>
    bs.result[1] = MaxOf(SmallerRecords)

====
